---- MODULE Spec2Model ----
(***************************************************************************)
(* Model of the sttify text input processor (src/sttify.tip):              *)
(*   - CTipIpcServer  (Ipc/TipIpcServer.cpp): Start / Stop /               *)
(*     SetTextService and the listener thread _ServerThread with           *)
(*     _ProcessMessage and _SplitString;                                   *)
(*   - CTextService   (Tip/TextService.cpp): SendText / CanInsert /        *)
(*     SetMode / DoEditSession / _IsCompositionActive.                     *)
(* Spec     is the command channel server with its callers and threads.    *)
(* SpecText is the insertion coordinator with its callers and the host's   *)
(* Text Surface.                                                           *)
(***************************************************************************)
EXTENDS Integers, Sequences, FiniteSets, TLC

(***************************************************************************)
(* Bounds of the model.                                                    *)
(***************************************************************************)
\* host threads that call Start / Stop / SetTextService concurrently
NumCallers == 2
\* Start calls that get as far as CreateEvent (one event, at most one thread each)
MaxStarts == 2

Callers == 1..NumCallers

\* threads that call SendText / CanInsert / SetMode concurrently
NumTextCallers == 2

TextCallers == 1..NumTextCallers

\* A NULL handle or pointer.
NULL == 0

VARIABLES
    \* ---- CTipIpcServer fields (TipIpcServer.h:23-28)
    hServerThread,   \* _hServerThread: NULL or the index of a thread object
    hStopEvent,      \* _hStopEvent: NULL or the index of an event object
    isRunning,       \* _isRunning
    pTextService,    \* _pTextService: NULL or a dispatch target
    mutex,           \* _mutex: NULL or the caller that owns it
    \* ---- kernel objects made by Start
    events,          \* sequence of [signaled, closes], one per CreateEvent
    threads,         \* sequence of listener thread records, one per CreateThread
    \* ---- the callers of the server's public methods
    cpc,             \* where each caller is
    ret,             \* what a caller's last call returned ("returned" for the void Stop)
    waitResult,      \* what WaitForSingleObject returned inside Stop
    \* ---- CTextService fields (TextService.h:54-63)
    pThreadMgr,      \* _pThreadMgr: NULL or the host's thread manager
    tfClientId,      \* _tfClientId: NULL (TF_CLIENTID_NULL) or the client id
    currentMode,     \* _currentMode
    tsMutex,         \* _mutex: NULL or the caller that owns it
    pCurrentContext, \* _pCurrentContext: NULL or the context of the edit session
    pendingText,     \* _pendingText
    \* ---- the host: its Text Surface and what was asked of it
    surface,         \* what the Text Surface answers now
    surfaceLog,      \* edit sessions requested and texts inserted during the
                     \* SendText call that took the lock last
    crashed,         \* the process has died of an access violation
    \* ---- the callers of SendText / CanInsert / SetMode
    tpc,             \* where each caller is
    call,            \* the method a caller is in
    arg,             \* its argument
    tret,            \* what the call that returned last returned ("pending"
                     \* once a later call has taken the lock)
    \* ---- one call of _SplitString
    splitCall,       \* its argument str, whether it has returned, its result
    \* ---- the listener's sessions, message by message
    buffer,          \* wchar_t buffer[BUFFER_SIZE] of _ServerThread
    served,          \* the messages clients have written, in the order read
    calls,           \* the calls made on the dispatch target, in order
    \* ---- CCompositionController fields (CompositionController.h:25-31)
    pContext,        \* _pContext: NULL or the context given to Initialize
    pComposition,    \* _pComposition: whether a composition is held
    clientId,        \* _clientId: NULL (TF_CLIENTID_NULL) or a client id
    currentCompositionText, \* _currentCompositionText
    ccMutex,         \* _mutex: NULL or the caller that owns it
    \* ---- the callers of the controller's methods
    ccpc,            \* where each caller is
    ccCall,          \* the method a caller is in
    ccret            \* what the call that ended last returned

serverVars == <<hServerThread, hStopEvent, isRunning, pTextService, mutex,
                events, threads, cpc, ret, waitResult>>

textVars == <<pThreadMgr, tfClientId, currentMode, tsMutex, pCurrentContext,
              pendingText, surface, surfaceLog, crashed, tpc, call, arg, tret>>

channelVars == <<splitCall, buffer, served, calls>>

controllerVars == <<pContext, pComposition, clientId, currentCompositionText,
                    ccMutex, ccpc, ccCall, ccret>>

vars == <<serverVars, textVars, channelVars, controllerVars>>

(***************************************************************************)
(* Messages.  A message is a sequence of chunks of characters; the chunk   *)
(* "|" is the delimiter character, every other chunk is a delimiter-free   *)
(* run of characters (a field made of the one chunk "SendText" is the      *)
(* string L"SendText"; a field <<"SendText", "x">> is L"SendTextx").       *)
(***************************************************************************)
Delimiter == "|"

Chunks == {"|", "SendText", "CanInsert", "SetMode", "sendtext", "x"}

\* The messages clients write to the pipe.
ClientMessages ==
    { <<"SendText", "|", "x">>, <<"SetMode", "|", "x">>, <<"CanInsert">>,
      <<"SendText">>, <<"sendtext", "|", "x">>, <<"|">>, <<>> }

\* The strings _SplitString is called with: at most MaxMsgLen characters.
MaxMsgLen == 4

RECURSIVE SeqsUpTo(_, _)
SeqsUpTo(S, n) ==
    IF n = 0 THEN {<<>>}
    ELSE LET shorter == SeqsUpTo(S, n - 1)
         IN  shorter \cup {Append(q, x) : q \in {r \in shorter : Len(r) = n - 1}, x \in S}

\* Two characters that are not the delimiter, and the delimiter.
Chars == {Delimiter, "x", "y"}

Messages == SeqsUpTo(Chars, MaxMsgLen)

\* A _SplitString that pushes a field at every delimiter.
RECURSIVE SplitLoop_KeepsEmptyFields(_, _, _, _)
SplitLoop_KeepsEmptyFields(str, delimiter, result, current) ==
    IF str = <<>>
    THEN IF current # <<>> THEN Append(result, current) ELSE result
    ELSE LET ch == Head(str)
         IN  IF ch = delimiter
             THEN SplitLoop_KeepsEmptyFields(Tail(str), delimiter,
                                             Append(result, current), <<>>)
             ELSE SplitLoop_KeepsEmptyFields(Tail(str), delimiter, result,
                                             Append(current, ch))

SplitString_KeepsEmptyFields(str, delimiter) ==
    SplitLoop_KeepsEmptyFields(str, delimiter, <<>>, <<>>)

\* The loop of _SplitString: str is what is left to scan, result and current
\* are the function's two locals.
RECURSIVE SplitLoop(_, _, _, _)
SplitLoop(str, delimiter, result, current) ==
    IF str = <<>>
    THEN IF current # <<>> THEN Append(result, current) ELSE result
    ELSE LET ch == Head(str)
         IN  IF ch = delimiter
             THEN IF current # <<>>
                  THEN SplitLoop(Tail(str), delimiter, Append(result, current), <<>>)
                  ELSE SplitLoop(Tail(str), delimiter, result, current)
             ELSE SplitLoop(Tail(str), delimiter, result, Append(current, ch))

SplitString(str, delimiter) == SplitLoop(str, delimiter, <<>>, <<>>)

\* What _ProcessMessage does with a message, up to the test of _pTextService:
\* the method it is about to call and its argument, or NoCmd when it returns
\* without reaching a call.
NoCmd == [cmd |-> "none", arg |-> <<>>]

\* A _ProcessMessage that calls SendText and SetMode with an empty argument
\* when the message has no second field.
ParseCommand_EmptyPayload(message) ==
    IF message = <<>> THEN NoCmd
    ELSE LET parts == SplitString(message, Delimiter)
         IN  IF parts = <<>> THEN NoCmd
             ELSE IF parts[1] \in {<<"SendText">>, <<"SetMode">>}
                  THEN [cmd |-> parts[1][1],
                        arg |-> IF Len(parts) >= 2 THEN parts[2] ELSE <<>>]
             ELSE IF parts[1] = <<"CanInsert">>
                  THEN [cmd |-> "CanInsert", arg |-> <<>>]
             ELSE NoCmd

\* A _ProcessMessage that compares the command name without regard to case.
ParseCommand_IgnoresCase(message) ==
    IF message = <<>> THEN NoCmd
    ELSE LET parts == SplitString(message, Delimiter)
         IN  IF parts = <<>> THEN NoCmd
             ELSE IF parts[1] \in {<<"SendText">>, <<"sendtext">>} /\ Len(parts) >= 2
                  THEN [cmd |-> "SendText", arg |-> parts[2]]
             ELSE IF parts[1] = <<"CanInsert">>
                  THEN [cmd |-> "CanInsert", arg |-> <<>>]
             ELSE IF parts[1] = <<"SetMode">> /\ Len(parts) >= 2
                  THEN [cmd |-> "SetMode", arg |-> parts[2]]
             ELSE NoCmd

ParseCommand(message) ==
    IF message = <<>> THEN NoCmd
    ELSE LET parts == SplitString(message, Delimiter)
         IN  IF parts = <<>> THEN NoCmd
             ELSE IF parts[1] = <<"SendText">> /\ Len(parts) >= 2
                  THEN [cmd |-> "SendText", arg |-> parts[2]]
             ELSE IF parts[1] = <<"CanInsert">>
                  THEN [cmd |-> "CanInsert", arg |-> <<>>]
             ELSE IF parts[1] = <<"SetMode">> /\ Len(parts) >= 2
                  THEN [cmd |-> "SetMode", arg |-> parts[2]]
             ELSE NoCmd

(***************************************************************************)
(* Kernel objects.                                                         *)
(***************************************************************************)
\* The dispatch targets SetTextService may install (NULL clears the target).
Targets == {NULL, 1}

NewThread ==
    [pc |-> "loop", hPipe |-> FALSE, waitEvt |-> NULL,
     checked |-> NULL, invoked |-> NULL, closes |-> 0]

Alive(t) == threads[t].pc # "exited"

AliveThreads == {t \in 1..Len(threads) : Alive(t)}

\* An event handle that names an event object not yet closed.
ValidEvent(h) == h # NULL /\ events[h].closes = 0

EventSignaled(h) == ValidEvent(h) /\ events[h].signaled

\* A pipe instance of PIPE_NAME exists (CreateNamedPipe: nMaxInstances = 1).
PipeInstanceOpen == \E t \in 1..Len(threads) : threads[t].hPipe

ServerInit ==
    /\ hServerThread = NULL
    /\ hStopEvent = NULL
    /\ isRunning = FALSE
    /\ pTextService = NULL
    /\ mutex = NULL
    /\ events = <<>>
    /\ threads = <<>>
    /\ cpc = [c \in Callers |-> "idle"]
    /\ ret = [c \in Callers |-> "none"]
    /\ waitResult = [c \in Callers |-> "none"]

(***************************************************************************)
(* CTipIpcServer::Start                                                    *)
(***************************************************************************)
CallStart(c) ==
    /\ UNCHANGED <<textVars, channelVars, controllerVars>>
    /\ cpc[c] = "idle"
    /\ cpc' = [cpc EXCEPT ![c] = "start_lock"]
    /\ ret' = [ret EXCEPT ![c] = "pending"]
    /\ UNCHANGED <<hServerThread, hStopEvent, isRunning, pTextService, mutex,
                   events, threads, waitResult>>

\* lines 33-40: take the lock; already running: S_OK; else CreateEvent.
StartEnter(c) ==
    /\ UNCHANGED <<textVars, channelVars, controllerVars>>
    /\ cpc[c] = "start_lock"
    /\ mutex = NULL
    /\ \/ /\ isRunning
          /\ cpc' = [cpc EXCEPT ![c] = "idle"]
          /\ ret' = [ret EXCEPT ![c] = "S_OK"]
          /\ UNCHANGED <<hStopEvent, events, mutex>>
       \/ /\ ~isRunning
          /\ Len(events) < MaxStarts
          /\ events' = Append(events, [signaled |-> FALSE, closes |-> 0])
          /\ hStopEvent' = Len(events) + 1
          /\ mutex' = c
          /\ cpc' = [cpc EXCEPT ![c] = "start_thread"]
          /\ UNCHANGED ret
       \/ /\ ~isRunning
          /\ hStopEvent' = NULL
          /\ cpc' = [cpc EXCEPT ![c] = "idle"]
          /\ ret' = [ret EXCEPT ![c] = "E_WIN32"]
          /\ UNCHANGED <<events, mutex>>
    /\ UNCHANGED <<hServerThread, isRunning, pTextService, threads, waitResult>>

\* StartCreateThread with the CloseHandle of line 45 left out.
StartCreateThread_LeaksEvent(c) ==
    /\ UNCHANGED <<textVars, channelVars, controllerVars>>
    /\ cpc[c] = "start_thread"
    /\ \/ /\ threads' = Append(threads, NewThread)
          /\ hServerThread' = Len(threads) + 1
          /\ cpc' = [cpc EXCEPT ![c] = "start_flag"]
          /\ UNCHANGED <<hStopEvent, events, mutex, ret>>
       \/ /\ hServerThread' = NULL
          /\ hStopEvent' = NULL
          /\ mutex' = NULL
          /\ cpc' = [cpc EXCEPT ![c] = "idle"]
          /\ ret' = [ret EXCEPT ![c] = "E_WIN32"]
          /\ UNCHANGED <<threads, events>>
    /\ UNCHANGED <<isRunning, pTextService, waitResult>>

\* lines 42-48: CreateThread; on failure the event is closed and cleared.
StartCreateThread(c) ==
    /\ UNCHANGED <<textVars, channelVars, controllerVars>>
    /\ cpc[c] = "start_thread"
    /\ \/ /\ threads' = Append(threads, NewThread)
          /\ hServerThread' = Len(threads) + 1
          /\ cpc' = [cpc EXCEPT ![c] = "start_flag"]
          /\ UNCHANGED <<hStopEvent, events, mutex, ret>>
       \/ /\ hServerThread' = NULL
          /\ events' = [events EXCEPT ![hStopEvent].closes = @ + 1]
          /\ hStopEvent' = NULL
          /\ mutex' = NULL
          /\ cpc' = [cpc EXCEPT ![c] = "idle"]
          /\ ret' = [ret EXCEPT ![c] = "E_WIN32"]
          /\ UNCHANGED threads
    /\ UNCHANGED <<isRunning, pTextService, waitResult>>

\* lines 50-51
StartSetRunning(c) ==
    /\ UNCHANGED <<textVars, channelVars, controllerVars>>
    /\ cpc[c] = "start_flag"
    /\ isRunning' = TRUE
    /\ mutex' = NULL
    /\ cpc' = [cpc EXCEPT ![c] = "idle"]
    /\ ret' = [ret EXCEPT ![c] = "S_OK"]
    /\ UNCHANGED <<hServerThread, hStopEvent, pTextService, events, threads,
                   waitResult>>

(***************************************************************************)
(* CTipIpcServer::Stop                                                     *)
(***************************************************************************)
CallStop(c) ==
    /\ UNCHANGED <<textVars, channelVars, controllerVars>>
    /\ cpc[c] = "idle"
    /\ cpc' = [cpc EXCEPT ![c] = "stop_lock"]
    /\ ret' = [ret EXCEPT ![c] = "pending"]
    /\ UNCHANGED <<hServerThread, hStopEvent, isRunning, pTextService, mutex,
                   events, threads, waitResult>>

\* lines 56-61: take the lock; not running: return; else clear the flag.
StopEnter(c) ==
    /\ UNCHANGED <<textVars, channelVars, controllerVars>>
    /\ cpc[c] = "stop_lock"
    /\ mutex = NULL
    /\ \/ /\ ~isRunning
          /\ cpc' = [cpc EXCEPT ![c] = "idle"]
          /\ ret' = [ret EXCEPT ![c] = "returned"]
          /\ UNCHANGED <<isRunning, mutex>>
       \/ /\ isRunning
          /\ isRunning' = FALSE
          /\ mutex' = c
          /\ cpc' = [cpc EXCEPT ![c] = "stop_signal"]
          /\ UNCHANGED ret
    /\ UNCHANGED <<hServerThread, hStopEvent, pTextService, events, threads,
                   waitResult>>

\* lines 63-66
StopSignal(c) ==
    /\ UNCHANGED <<textVars, channelVars, controllerVars>>
    /\ cpc[c] = "stop_signal"
    /\ events' = IF hStopEvent # NULL
                 THEN [events EXCEPT ![hStopEvent].signaled = TRUE]
                 ELSE events
    /\ cpc' = [cpc EXCEPT ![c] = "stop_wait"]
    /\ UNCHANGED <<hServerThread, hStopEvent, isRunning, pTextService, mutex,
                   threads, ret, waitResult>>

\* A call of the listener thread that the stop event does not interrupt and
\* that can last longer than Stop's 5000 ms: ConnectNamedPipe, ReadFile, the
\* dispatched method, and a wait on anything but a signaled stop event.
BlockedPastWait(t) ==
    \/ threads[t].pc \in {"connect", "read", "invoke"}
    \/ threads[t].pc = "wait" /\ ~EventSignaled(threads[t].waitEvt)

\* StopWait waiting on _hStopEvent, which Stop has just signaled, instead of
\* on _hServerThread: the wait returns at once.
StopWait_WaitsOnStopEvent(c) ==
    /\ UNCHANGED <<textVars, channelVars, controllerVars>>
    /\ cpc[c] = "stop_wait"
    /\ IF hServerThread # NULL
       THEN /\ waitResult' = [waitResult EXCEPT ![c] = "WAIT_OBJECT_0"]
            /\ threads' = [threads EXCEPT ![hServerThread].closes = @ + 1]
            /\ hServerThread' = NULL
       ELSE UNCHANGED <<waitResult, threads, hServerThread>>
    /\ cpc' = [cpc EXCEPT ![c] = "stop_close"]
    /\ UNCHANGED <<hStopEvent, isRunning, pTextService, mutex, events, ret>>

\* lines 68-73: WaitForSingleObject(_hServerThread, 5000), then the handle
\* is closed and cleared whatever the wait returned.
StopWait(c) ==
    /\ UNCHANGED <<textVars, channelVars, controllerVars>>
    /\ cpc[c] = "stop_wait"
    /\ IF hServerThread # NULL
       THEN /\ \/ /\ ~Alive(hServerThread)
                  /\ waitResult' = [waitResult EXCEPT ![c] = "WAIT_OBJECT_0"]
               \/ /\ Alive(hServerThread)
                  /\ BlockedPastWait(hServerThread)
                  /\ waitResult' = [waitResult EXCEPT ![c] = "WAIT_TIMEOUT"]
            /\ threads' = [threads EXCEPT ![hServerThread].closes = @ + 1]
            /\ hServerThread' = NULL
       ELSE UNCHANGED <<waitResult, threads, hServerThread>>
    /\ cpc' = [cpc EXCEPT ![c] = "stop_close"]
    /\ UNCHANGED <<hStopEvent, isRunning, pTextService, mutex, events, ret>>

\* StopCloseEvent with the assignment of line 78 left out.
StopCloseEvent_KeepsField(c) ==
    /\ UNCHANGED <<textVars, channelVars, controllerVars>>
    /\ cpc[c] = "stop_close"
    /\ IF hStopEvent # NULL
       THEN events' = [events EXCEPT ![hStopEvent].closes = @ + 1]
       ELSE UNCHANGED events
    /\ mutex' = NULL
    /\ cpc' = [cpc EXCEPT ![c] = "idle"]
    /\ ret' = [ret EXCEPT ![c] = "returned"]
    /\ waitResult' = [waitResult EXCEPT ![c] = "none"]
    /\ UNCHANGED <<hServerThread, hStopEvent, isRunning, pTextService, threads>>

\* lines 75-80
StopCloseEvent(c) ==
    /\ UNCHANGED <<textVars, channelVars, controllerVars>>
    /\ cpc[c] = "stop_close"
    /\ IF hStopEvent # NULL
       THEN /\ events' = [events EXCEPT ![hStopEvent].closes = @ + 1]
            /\ hStopEvent' = NULL
       ELSE UNCHANGED <<events, hStopEvent>>
    /\ mutex' = NULL
    /\ cpc' = [cpc EXCEPT ![c] = "idle"]
    /\ ret' = [ret EXCEPT ![c] = "returned"]
    /\ waitResult' = [waitResult EXCEPT ![c] = "none"]
    /\ UNCHANGED <<hServerThread, isRunning, pTextService, threads>>

(***************************************************************************)
(* CTipIpcServer::SetTextService (lines 82-86)                             *)
(***************************************************************************)
SetTextService(c, pNew) ==
    /\ UNCHANGED <<textVars, channelVars, controllerVars>>
    /\ cpc[c] = "idle"
    /\ mutex = NULL
    /\ pTextService # pNew
    /\ pTextService' = pNew
    /\ UNCHANGED <<hServerThread, hStopEvent, isRunning, mutex, events, threads,
                   cpc, ret, waitResult>>

(***************************************************************************)
(* CTipIpcServer::_ServerThread, one action per step of the loop.          *)
(***************************************************************************)
SetThread(t, r) ==
    /\ UNCHANGED <<textVars, channelVars, controllerVars>>
    /\ threads' = [threads EXCEPT ![t] = r]
    /\ UNCHANGED <<hServerThread, hStopEvent, isRunning, pTextService, mutex,
                   events, cpc, ret, waitResult>>

\* line 96: while (_isRunning)
ThreadLoop(t) ==
    /\ threads[t].pc = "loop"
    /\ SetThread(t, [threads[t] EXCEPT !.pc = IF isRunning THEN "create" ELSE "exited"])

\* ThreadCreatePipe leaving the loop when CreateNamedPipe fails (break for
\* the Sleep and continue of lines 110-111).
ThreadCreatePipe_BreaksOnFailure(t) ==
    /\ threads[t].pc = "create"
    /\ \/ /\ ~PipeInstanceOpen
          /\ SetThread(t, [threads[t] EXCEPT !.pc = "wait", !.hPipe = TRUE,
                                             !.waitEvt = hStopEvent])
       \/ SetThread(t, [threads[t] EXCEPT !.pc = "exited"])

\* lines 98-114: CreateNamedPipe; INVALID_HANDLE_VALUE leads to Sleep, a pipe
\* to the wait, whose handle array takes the value _hStopEvent has now.
ThreadCreatePipe(t) ==
    /\ threads[t].pc = "create"
    /\ \/ /\ ~PipeInstanceOpen
          /\ SetThread(t, [threads[t] EXCEPT !.pc = "wait", !.hPipe = TRUE,
                                             !.waitEvt = hStopEvent])
       \/ SetThread(t, [threads[t] EXCEPT !.pc = "sleep"])

\* lines 110-111: Sleep(1000); continue
ThreadSleep(t) ==
    /\ threads[t].pc = "sleep"
    /\ SetThread(t, [threads[t] EXCEPT !.pc = "loop"])

\* lines 115-121: WaitForMultipleObjects.  WAIT_OBJECT_0 when the stop event
\* is signaled (the lower index wins): the pipe is closed and the loop left.
\* Any other result (the pipe's index, or WAIT_FAILED for a handle that is
\* NULL or closed) goes on to ConnectNamedPipe.
ThreadWait(t) ==
    /\ threads[t].pc = "wait"
    /\ IF EventSignaled(threads[t].waitEvt)
       THEN SetThread(t, [threads[t] EXCEPT !.pc = "exited", !.hPipe = FALSE,
                                            !.waitEvt = NULL])
       ELSE SetThread(t, [threads[t] EXCEPT !.pc = "connect", !.waitEvt = NULL])

\* line 123: ConnectNamedPipe returns once a client is connected, or fails.
ThreadConnect(t) ==
    /\ threads[t].pc = "connect"
    /\ \E connected \in BOOLEAN :
          SetThread(t, [threads[t] EXCEPT !.pc = IF connected THEN "read" ELSE "teardown"])

\* lines 125-135 and 145-156: ReadFile; a message read is parsed by
\* _ProcessMessage, which goes on to the test of _pTextService or returns.
ThreadRead(t) ==
    /\ threads[t].pc = "read"
    /\ \/ \E message \in ClientMessages :
             SetThread(t, [threads[t] EXCEPT
                              !.pc = IF ParseCommand(message) = NoCmd
                                     THEN "teardown" ELSE "dispatch"])
       \/ SetThread(t, [threads[t] EXCEPT !.pc = "teardown"])

\* lines 158, 165, 172: if (_pTextService)
ThreadCheckTarget(t) ==
    /\ threads[t].pc = "dispatch"
    /\ IF pTextService = NULL
       THEN SetThread(t, [threads[t] EXCEPT !.pc = "teardown"])
       ELSE SetThread(t, [threads[t] EXCEPT !.pc = "invoke", !.checked = pTextService])

\* lines 160, 167, 174: _pTextService->...  The field is read without the
\* lock while SetTextService writes it: the object the call is made on is the
\* value the test loaded or the value the field holds now.
ThreadInvoke(t) ==
    /\ threads[t].pc = "invoke"
    /\ \E target \in {threads[t].checked, pTextService} :
          SetThread(t, [threads[t] EXCEPT !.pc = "teardown", !.invoked = target])

\* A loop body that ends without closing its pipe.
ThreadTeardown_KeepsPipe(t) ==
    /\ threads[t].pc = "teardown"
    /\ SetThread(t, [threads[t] EXCEPT !.pc = "loop",
                                       !.checked = NULL, !.invoked = NULL])

\* lines 138-139: DisconnectNamedPipe, CloseHandle; back to the loop test.
ThreadTeardown(t) ==
    /\ threads[t].pc = "teardown"
    /\ SetThread(t, [threads[t] EXCEPT !.pc = "loop", !.hPipe = FALSE,
                                       !.checked = NULL, !.invoked = NULL])

(***************************************************************************)
(* The Text Surface, as CTextService sees it through the thread manager.   *)
(*   focus   ITfThreadMgr::GetFocus: "E_FAIL", "S_FALSE" (success, no      *)
(*           document manager has the focus) or "S_OK" (a document)        *)
(*   top     ITfDocumentMgr::GetTop: "E_FAIL", "S_OK_NULL" (success, the   *)
(*           context stack is empty) or "S_OK" (a context)                 *)
(*   comp    the context's compositions: "QI_FAIL" (no                     *)
(*           ITfContextComposition), "ENUM_FAIL" (EnumCompositions         *)
(*           fails), "NONE" (Next fetches nothing) or "ACTIVE"             *)
(*   session ITfContext::RequestEditSession: "E_FAIL" (the call fails),    *)
(*           "DENIED" (S_OK, the session is not granted and                *)
(*           DoEditSession does not run) or "GRANTED" (S_OK,               *)
(*           DoEditSession has run before the call returns)                *)
(*   insert  "QI_FAIL" (the context has no ITfInsertAtSelection) or "S_OK" *)
(***************************************************************************)
Surfaces ==
    LET Doc == [focus : {"S_OK"}, top : {"S_OK"},
                comp : {"QI_FAIL", "ENUM_FAIL", "NONE", "ACTIVE"}]
        NoCtx == [focus : {"S_OK"}, top : {"E_FAIL", "S_OK_NULL"}, comp : {"NONE"}]
        NoDoc == [focus : {"E_FAIL", "S_FALSE"}, top : {"S_OK_NULL"}, comp : {"NONE"}]
        Answers == {<<"E_FAIL", "S_OK">>, <<"DENIED", "S_OK">>,
                    <<"GRANTED", "QI_FAIL">>, <<"GRANTED", "S_OK">>}
    IN  {[focus |-> q.focus, top |-> q.top, comp |-> q.comp,
          session |-> a[1], insert |-> a[2]] :
            q \in Doc \cup NoCtx \cup NoDoc, a \in Answers}

\* The modes SetMode is called with, and the texts SendText is called with.
Modes == {"final-only", "Final-Only", "continuous"}

Texts == {"", "x", "y"}

FAILED(hr) == hr = "E_FAIL"

\* What GetFocus and GetTop return, and whether they hand out an object.
FocusHr(s) == s.focus

FocusDoc(s) == s.focus = "S_OK"

TopHr(s) == IF s.top = "E_FAIL" THEN "E_FAIL" ELSE "S_OK"

TopContext(s) == s.top = "S_OK"

\* _IsCompositionActive from its GetFocus on (lines 226-250).
CompositionQuery(s) ==
    IF FAILED(FocusHr(s)) \/ ~FocusDoc(s) THEN FALSE
    ELSE IF FAILED(TopHr(s)) \/ ~TopContext(s) THEN FALSE
    ELSE IF s.comp = "QI_FAIL" THEN FALSE
    ELSE IF s.comp = "ENUM_FAIL" THEN FALSE
    ELSE s.comp = "ACTIVE"

\* A mode test that ignores the case of the name.
IsSuppressingMode_IgnoresCase(mode) == mode \in {"final-only", "Final-Only"}

\* The test of lines 115 and 145 on the mode.
IsSuppressingMode(mode) == mode = "final-only"

\* What the Text Surface has been asked since the latest SendText took the
\* lock: the edit sessions requested and the texts handed to
\* InsertTextAtSelection.
NoLog == [requests |-> 0, inserts |-> <<>>]

TextInit ==
    /\ pThreadMgr = NULL
    /\ tfClientId = NULL
    /\ currentMode = "final-only"
    /\ tsMutex = NULL
    /\ pCurrentContext = NULL
    /\ pendingText = ""
    /\ surfaceLog = NoLog
    /\ crashed = FALSE
    /\ tpc = [c \in TextCallers |-> "idle"]
    /\ call = [c \in TextCallers |-> "none"]
    /\ arg = [c \in TextCallers |-> ""]
    /\ tret = "none"

\* A caller returns v, the lock_guard releasing _mutex.
TReturn(c, v) ==
    /\ tpc' = [tpc EXCEPT ![c] = "idle"]
    /\ tret' = v
    /\ call' = [call EXCEPT ![c] = "none"]
    /\ arg' = [arg EXCEPT ![c] = ""]
    /\ tsMutex' = NULL
    /\ UNCHANGED crashed

TGoto(c, label) ==
    /\ tpc' = [tpc EXCEPT ![c] = label]
    /\ UNCHANGED <<tret, call, arg, tsMutex, crashed>>

\* _pThreadMgr-> on a NULL CComPtr: an access violation ends the process.
TCrash(c) ==
    /\ crashed' = TRUE
    /\ tpc' = [tpc EXCEPT ![c] = "crashed"]
    /\ UNCHANGED <<tret, call, arg, tsMutex>>

\* A call of a method that does not wait for _mutex to be free.
TEnter_WithoutLock(c, method, a, label) ==
    /\ ~crashed
    /\ tpc[c] = "idle"
    /\ tsMutex' = c
    /\ tpc' = [tpc EXCEPT ![c] = label]
    /\ call' = [call EXCEPT ![c] = method]
    /\ arg' = [arg EXCEPT ![c] = a]
    /\ tret' = "pending"
    /\ UNCHANGED <<pThreadMgr, tfClientId, currentMode, pCurrentContext,
                   pendingText, surface, crashed>>
    /\ UNCHANGED <<serverVars, channelVars, controllerVars>>

\* A call of a locked method: std::lock_guard<std::mutex> lock(_mutex)
\* (lines 110, 140, 158).
TEnter(c, method, a, label) ==
    /\ ~crashed
    /\ tpc[c] = "idle"
    /\ tsMutex = NULL
    /\ tsMutex' = c
    /\ tpc' = [tpc EXCEPT ![c] = label]
    /\ call' = [call EXCEPT ![c] = method]
    /\ arg' = [arg EXCEPT ![c] = a]
    /\ tret' = "pending"
    /\ UNCHANGED <<pThreadMgr, tfClientId, currentMode, pCurrentContext,
                   pendingText, surface, crashed>>
    /\ UNCHANGED <<serverVars, channelVars, controllerVars>>

(***************************************************************************)
(* CTextService::Activate / Deactivate (lines 30-57), called by the host   *)
(* on its own thread; neither takes _mutex.                                *)
(***************************************************************************)
Activate ==
    /\ ~crashed
    /\ pThreadMgr = NULL
    /\ pThreadMgr' = 1
    /\ tfClientId' = 1
    /\ UNCHANGED <<currentMode, tsMutex, pCurrentContext, pendingText, surface,
                   surfaceLog, crashed, tpc, call, arg, tret>>
    /\ UNCHANGED <<serverVars, channelVars, controllerVars>>

Deactivate ==
    /\ ~crashed
    /\ pThreadMgr # NULL
    /\ pThreadMgr' = NULL
    /\ tfClientId' = NULL
    /\ UNCHANGED <<currentMode, tsMutex, pCurrentContext, pendingText, surface,
                   surfaceLog, crashed, tpc, call, arg, tret>>
    /\ UNCHANGED <<serverVars, channelVars, controllerVars>>

\* The host changes what the Text Surface answers (focus, contexts,
\* compositions, edit sessions).
SurfaceChange ==
    /\ ~crashed
    /\ \E s \in Surfaces \ {surface} : surface' = s
    /\ UNCHANGED <<pThreadMgr, tfClientId, currentMode, tsMutex, pCurrentContext,
                   pendingText, surfaceLog, crashed, tpc, call, arg, tret>>
    /\ UNCHANGED <<serverVars, channelVars, controllerVars>>

(***************************************************************************)
(* CTextService::SetMode (lines 156-160)                                   *)
(***************************************************************************)
CallSetMode(c) ==
    /\ \E mode \in Modes : TEnter(c, "SetMode", mode, "store")
    /\ UNCHANGED surfaceLog

SetMode(c) ==
    /\ ~crashed
    /\ tpc[c] = "store"
    /\ currentMode' = arg[c]
    /\ TReturn(c, "void")
    /\ UNCHANGED <<pThreadMgr, tfClientId, pCurrentContext, pendingText, surface,
                   surfaceLog>>
    /\ UNCHANGED <<serverVars, channelVars, controllerVars>>

(***************************************************************************)
(* CTextService::SendText (lines 108-136) and CanInsert (lines 138-154)    *)
(***************************************************************************)
CallSendText(c) ==
    /\ \E text \in Texts : TEnter(c, "SendText", text, "mgr_test")
    /\ surfaceLog' = NoLog

CallCanInsert(c) ==
    /\ TEnter(c, "CanInsert", "", "mgr_test")
    /\ UNCHANGED surfaceLog

\* What each method returns when it finds no thread manager, and when the
\* mode and the composition suppress the insertion.
NoThreadMgrResult(method) == IF method = "SendText" THEN "E_FAIL" ELSE "FALSE"

SuppressedResult(method) == IF method = "SendText" THEN "S_FALSE" ELSE "FALSE"

\* lines 112-115 and 142-145: no thread manager: return; the mode decides
\* whether _IsCompositionActive is called.
ThreadMgrTest(c) ==
    /\ ~crashed
    /\ tpc[c] = "mgr_test"
    /\ IF pThreadMgr = NULL
       THEN TReturn(c, NoThreadMgrResult(call[c]))
       ELSE TGoto(c, IF IsSuppressingMode(currentMode) THEN "comp_null" ELSE "target")
    /\ UNCHANGED <<pThreadMgr, tfClientId, currentMode, pCurrentContext,
                   pendingText, surface, surfaceLog>>
    /\ UNCHANGED <<serverVars, channelVars, controllerVars>>

\* lines 223-224: _IsCompositionActive's own test of _pThreadMgr.
CompositionNullTest(c) ==
    /\ ~crashed
    /\ tpc[c] = "comp_null"
    /\ TGoto(c, IF pThreadMgr = NULL THEN "target" ELSE "comp_query")
    /\ UNCHANGED <<pThreadMgr, tfClientId, currentMode, pCurrentContext,
                   pendingText, surface, surfaceLog>>
    /\ UNCHANGED <<serverVars, channelVars, controllerVars>>

\* lines 226-250, then 116 or 146: the composition query and the return of
\* the suppressed call.
CompositionTest(c) ==
    /\ ~crashed
    /\ tpc[c] = "comp_query"
    /\ IF pThreadMgr = NULL
       THEN TCrash(c)
       ELSE IF CompositionQuery(surface)
            THEN TReturn(c, SuppressedResult(call[c]))
            ELSE TGoto(c, "target")
    /\ UNCHANGED <<pThreadMgr, tfClientId, currentMode, pCurrentContext,
                   pendingText, surface, surfaceLog>>
    /\ UNCHANGED <<serverVars, channelVars, controllerVars>>

\* SendText lines 118-126: GetFocus, GetTop; each returns its hr when it
\* fails or hands out no object.
SendTextTarget(c) ==
    /\ ~crashed
    /\ tpc[c] = "target" /\ call[c] = "SendText"
    /\ IF pThreadMgr = NULL
       THEN TCrash(c)
       ELSE IF FAILED(FocusHr(surface)) \/ ~FocusDoc(surface)
            THEN TReturn(c, FocusHr(surface))
            ELSE IF FAILED(TopHr(surface)) \/ ~TopContext(surface)
                 THEN TReturn(c, TopHr(surface))
                 ELSE TGoto(c, "request")
    /\ UNCHANGED <<pThreadMgr, tfClientId, currentMode, pCurrentContext,
                   pendingText, surface, surfaceLog>>
    /\ UNCHANGED <<serverVars, channelVars, controllerVars>>

\* CanInsert lines 148-153
CanInsertTarget(c) ==
    /\ ~crashed
    /\ tpc[c] = "target" /\ call[c] = "CanInsert"
    /\ IF pThreadMgr = NULL
       THEN TCrash(c)
       ELSE IF FAILED(FocusHr(surface)) \/ ~FocusDoc(surface)
            THEN TReturn(c, "FALSE")
            ELSE TReturn(c, "TRUE")
    /\ UNCHANGED <<pThreadMgr, tfClientId, currentMode, pCurrentContext,
                   pendingText, surface, surfaceLog>>
    /\ UNCHANGED <<serverVars, channelVars, controllerVars>>

\* A DoEditSession without the test of _pendingText.empty().
DoEditSession_InsertsEmptyText(text, s) ==
    IF s.insert = "QI_FAIL"
    THEN [inserts |-> <<>>, text |-> text, context |-> 1]
    ELSE [inserts |-> <<text>>, text |-> "", context |-> NULL]

\* DoEditSession (lines 89-106) with _pendingText = text and a context set:
\* the texts it inserts and the pending state it leaves.
DoEditSession(text, s) ==
    IF text = ""
    THEN [inserts |-> <<>>, text |-> text, context |-> 1]
    ELSE IF s.insert = "QI_FAIL"
         THEN [inserts |-> <<>>, text |-> text, context |-> 1]
         ELSE [inserts |-> <<text>>, text |-> "", context |-> NULL]

\* SendText lines 128-135: the pending state is stored and a synchronous
\* read-write edit session requested; DoEditSession runs inside the request
\* when the session is granted.  SendText returns the request's hr.
SendTextRequest(c) ==
    /\ ~crashed
    /\ tpc[c] = "request"
    /\ LET done == IF surface.session = "GRANTED"
                   THEN DoEditSession(arg[c], surface)
                   ELSE [inserts |-> <<>>, text |-> arg[c], context |-> 1]
       IN  /\ pendingText' = done.text
           /\ pCurrentContext' = done.context
           /\ surfaceLog' = [requests |-> surfaceLog.requests + 1,
                             inserts |-> surfaceLog.inserts \o done.inserts]
    /\ TReturn(c, IF surface.session = "E_FAIL" THEN "E_FAIL" ELSE "S_OK")
    /\ UNCHANGED <<pThreadMgr, tfClientId, currentMode, surface>>
    /\ UNCHANGED <<serverVars, channelVars, controllerVars>>

(***************************************************************************)
(* CCompositionController (CompositionController.cpp).  TextService.cpp    *)
(* includes the header and makes no controller; the class is followed on   *)
(* its own, with callers that may be on different threads.                 *)
(*   ccpc  "idle", "lock" (called, before the lock_guard of the method),   *)
(*         "body" (holds the lock), "release" (Uninitialize after          *)
(*         EndComposition), "deadlocked", "destroyed", "terminated"        *)
(***************************************************************************)
\* callers of the controller's public methods
NumControllerCallers == 2

ControllerCallers == 1..NumControllerCallers

\* The contexts and client ids Initialize is called with.
Contexts == {1, 2}

ClientIds == {1}

\* lines 4-7 (the CComPtr members start as nullptr)
ControllerInit ==
    /\ pContext = NULL
    /\ pComposition = FALSE
    /\ clientId = NULL
    /\ currentCompositionText = ""
    /\ ccMutex = NULL
    /\ ccpc = [c \in ControllerCallers |-> "idle"]
    /\ ccCall = [c \in ControllerCallers |-> "none"]
    /\ ccret = "none"

\* The object is no more: its destructor has run, or std::terminate was
\* called.
Gone == \E c \in ControllerCallers : ccpc[c] \in {"destroyed", "terminated"}

\* A method returns v without having taken the lock.
CReturnUnlocked(c, v) ==
    /\ ccpc' = [ccpc EXCEPT ![c] = "idle"]
    /\ ccCall' = [ccCall EXCEPT ![c] = "none"]
    /\ ccret' = v
    /\ UNCHANGED ccMutex

\* A method returns v; its lock_guard releases the lock.
CReturn(c, v) ==
    /\ ccpc' = [ccpc EXCEPT ![c] = "idle"]
    /\ ccCall' = [ccCall EXCEPT ![c] = "none"]
    /\ ccret' = v
    /\ ccMutex' = NULL

\* A caller enters a method and comes to its lock_guard.
CCall(c, method) ==
    /\ ccpc[c] = "idle"
    /\ ~Gone
    /\ ccpc' = [ccpc EXCEPT ![c] = "lock"]
    /\ ccCall' = [ccCall EXCEPT ![c] = method]
    /\ UNCHANGED <<ccMutex, ccret>>

\* std::lock_guard<std::mutex> lock(_mutex) of lines 19, 29, 42, 55, 69
CLock(c) ==
    /\ UNCHANGED <<serverVars, textVars, channelVars>>
    /\ ccpc[c] = "lock"
    /\ ccMutex = NULL
    /\ ccMutex' = c
    /\ ccpc' = [ccpc EXCEPT ![c] = "body"]
    /\ UNCHANGED <<pContext, pComposition, clientId, currentCompositionText,
                   ccCall, ccret>>

\* lines 14-17: Initialize(pContext, clientId); a null context returns
\* E_INVALIDARG before the lock.
CallInitialize(c) ==
    /\ UNCHANGED <<serverVars, textVars, channelVars>>
    /\ ccpc[c] = "idle"
    /\ ~Gone
    /\ \/ CReturnUnlocked(c, "E_INVALIDARG")
       \/ CCall(c, "Initialize")
    /\ UNCHANGED <<pContext, pComposition, clientId, currentCompositionText>>

\* lines 21-24
Initialize(c) ==
    /\ UNCHANGED <<serverVars, textVars, channelVars>>
    /\ ccpc[c] = "body"
    /\ ccCall[c] = "Initialize"
    /\ \E ctx \in Contexts, id \in ClientIds :
          /\ pContext' = ctx
          /\ clientId' = id
    /\ CReturn(c, "S_OK")
    /\ UNCHANGED <<pComposition, currentCompositionText>>

\* line 27: Uninitialize()
CallUninitialize(c) ==
    /\ UNCHANGED <<serverVars, textVars, channelVars>>
    /\ CCall(c, "Uninitialize")
    /\ UNCHANGED <<pContext, pComposition, clientId, currentCompositionText>>

\* lines 9-12: the destructor calls Uninitialize.  An object is destroyed
\* when nobody else is inside one of its methods.
CallDestructor(c) ==
    /\ UNCHANGED <<serverVars, textVars, channelVars>>
    /\ \A d \in ControllerCallers : ccpc[d] = "idle"
    /\ CCall(c, "~CCompositionController")
    /\ UNCHANGED <<pContext, pComposition, clientId, currentCompositionText>>

\* line 31: Uninitialize, holding _mutex (line 29), calls EndComposition,
\* whose first statement (line 55) locks the same std::mutex on the same
\* thread.  The behaviour is undefined; what builds do is
\*   block for ever in the lock,
\*   throw std::system_error out of lock() (the exception leaves
\*     Uninitialize, whose lock_guard unlocks; out of the noexcept
\*     destructor it ends in std::terminate),
\*   or let the owner in again, so that the body of EndComposition (lines
\*     57-64) runs and Uninitialize goes on.
UninitializeEndComposition(c) ==
    /\ UNCHANGED <<serverVars, textVars, channelVars>>
    /\ ccpc[c] = "body"
    /\ ccCall[c] \in {"Uninitialize", "~CCompositionController"}
    /\ \/ /\ ccpc' = [ccpc EXCEPT ![c] = "deadlocked"]
          /\ UNCHANGED <<ccMutex, ccCall, ccret, pComposition,
                         currentCompositionText>>
       \/ /\ ccpc' = [ccpc EXCEPT ![c] = IF ccCall[c] = "Uninitialize"
                                         THEN "idle" ELSE "terminated"]
          /\ ccCall' = [ccCall EXCEPT ![c] = "none"]
          /\ ccret' = "system_error"
          /\ ccMutex' = NULL
          /\ UNCHANGED <<pComposition, currentCompositionText>>
       \/ /\ pComposition' = FALSE
          /\ currentCompositionText' =
                IF pComposition THEN "" ELSE currentCompositionText
          /\ ccpc' = [ccpc EXCEPT ![c] = "release"]
          /\ UNCHANGED <<ccMutex, ccCall, ccret>>
    /\ UNCHANGED <<pContext, clientId>>

\* lines 33-35: _pContext.Release(); _clientId = TF_CLIENTID_NULL; return
UninitializeRelease(c) ==
    /\ UNCHANGED <<serverVars, textVars, channelVars>>
    /\ ccpc[c] = "release"
    /\ pContext' = NULL
    /\ clientId' = NULL
    /\ ccpc' = [ccpc EXCEPT ![c] = IF ccCall[c] = "Uninitialize"
                                   THEN "idle" ELSE "destroyed"]
    /\ ccCall' = [ccCall EXCEPT ![c] = "none"]
    /\ ccret' = "void"
    /\ ccMutex' = NULL
    /\ UNCHANGED <<pComposition, currentCompositionText>>

\* lines 37-40: StartComposition(pRange); a null range, or a _pContext read
\* as null without the lock, returns E_INVALIDARG.
CallStartComposition(c) ==
    /\ UNCHANGED <<serverVars, textVars, channelVars>>
    /\ ccpc[c] = "idle"
    /\ ~Gone
    /\ \/ CReturnUnlocked(c, "E_INVALIDARG")
       \/ pContext # NULL /\ CCall(c, "StartComposition")
    /\ UNCHANGED <<pContext, pComposition, clientId, currentCompositionText>>

\* lines 44-50 and 100-115: S_FALSE with a composition already there, else
\* _CreateComposition: E_FAIL without a context, a failure of
\* QueryInterface or of the context's StartComposition, or the composition
\* made and the result of _SetCompositionDisplay.
StartComposition(c) ==
    /\ UNCHANGED <<serverVars, textVars, channelVars>>
    /\ ccpc[c] = "body"
    /\ ccCall[c] = "StartComposition"
    /\ IF pComposition
       THEN CReturn(c, "S_FALSE") /\ UNCHANGED pComposition
       ELSE IF pContext = NULL
       THEN CReturn(c, "E_FAIL") /\ UNCHANGED pComposition
       ELSE \/ CReturn(c, "E_FAIL") /\ UNCHANGED pComposition
            \/ /\ pComposition' = TRUE
               /\ \E hr \in {"S_OK", "E_FAIL"} : CReturn(c, hr)
    /\ UNCHANGED <<pContext, clientId, currentCompositionText>>

\* line 53: EndComposition() called from outside
CallEndComposition(c) ==
    /\ UNCHANGED <<serverVars, textVars, channelVars>>
    /\ CCall(c, "EndComposition")
    /\ UNCHANGED <<pContext, pComposition, clientId, currentCompositionText>>

\* lines 57-64
EndComposition(c) ==
    /\ UNCHANGED <<serverVars, textVars, channelVars>>
    /\ ccpc[c] = "body"
    /\ ccCall[c] = "EndComposition"
    /\ IF ~pComposition
       THEN /\ CReturn(c, "S_FALSE")
            /\ UNCHANGED <<pComposition, currentCompositionText>>
       ELSE /\ pComposition' = FALSE
            /\ currentCompositionText' = ""
            /\ \E hr \in {"S_OK", "E_FAIL"} : CReturn(c, hr)
    /\ UNCHANGED <<pContext, clientId>>

\* line 67: UpdateComposition(text)
CallUpdateComposition(c) ==
    /\ UNCHANGED <<serverVars, textVars, channelVars>>
    /\ CCall(c, "UpdateComposition")
    /\ UNCHANGED <<pContext, pComposition, clientId, currentCompositionText>>

\* lines 71-75 and 117-137
UpdateComposition(c) ==
    /\ UNCHANGED <<serverVars, textVars, channelVars>>
    /\ ccpc[c] = "body"
    /\ ccCall[c] = "UpdateComposition"
    /\ IF ~pComposition
       THEN CReturn(c, "E_FAIL") /\ UNCHANGED currentCompositionText
       ELSE /\ \E text \in Texts : currentCompositionText' = text
            /\ \E hr \in {"S_OK", "E_FAIL"} : CReturn(c, hr)
    /\ UNCHANGED <<pContext, pComposition, clientId>>

\* CompositionController.h line 16: IsCompositionActive, no lock
IsCompositionActive(c) ==
    /\ UNCHANGED <<serverVars, textVars, channelVars>>
    /\ ccpc[c] = "idle"
    /\ ~Gone
    /\ CReturnUnlocked(c, IF pComposition THEN "TRUE" ELSE "FALSE")
    /\ UNCHANGED <<pContext, pComposition, clientId, currentCompositionText>>

\* lines 78-98: IsCompositionInProgress, no lock; with a context the answer
\* is the host's.
IsCompositionInProgress(c) ==
    /\ UNCHANGED <<serverVars, textVars, channelVars>>
    /\ ccpc[c] = "idle"
    /\ ~Gone
    /\ \E answer \in (IF pContext = NULL THEN {"FALSE"} ELSE {"TRUE", "FALSE"}) :
          CReturnUnlocked(c, answer)
    /\ UNCHANGED <<pContext, pComposition, clientId, currentCompositionText>>

(***************************************************************************)
(* The server with its callers and its listener threads.                   *)
(***************************************************************************)
\* No call of _SplitString is followed and the listener has served nothing.
NoSplit == [str |-> <<>>, returned |-> FALSE, result |-> <<>>]

ChannelInit ==
    /\ splitCall = NoSplit
    /\ buffer = <<>>
    /\ served = <<>>
    /\ calls = <<>>

\* In Spec no CTextService is installed as a target that the model follows:
\* its state stays as constructed.
QuietSurface ==
    [focus |-> "S_FALSE", top |-> "S_OK_NULL", comp |-> "NONE",
     session |-> "DENIED", insert |-> "S_OK"]

Init == ServerInit /\ TextInit /\ surface = QuietSurface /\ ChannelInit /\ ControllerInit

Next ==
    \/ \E c \in Callers : CallStart(c)
    \/ \E c \in Callers : StartEnter(c)
    \/ \E c \in Callers : StartCreateThread(c)
    \/ \E c \in Callers : StartSetRunning(c)
    \/ \E c \in Callers : CallStop(c)
    \/ \E c \in Callers : StopEnter(c)
    \/ \E c \in Callers : StopSignal(c)
    \/ \E c \in Callers : StopWait(c)
    \/ \E c \in Callers : StopCloseEvent(c)
    \/ \E c \in Callers, pNew \in Targets : SetTextService(c, pNew)
    \/ \E t \in 1..Len(threads) : ThreadLoop(t)
    \/ \E t \in 1..Len(threads) : ThreadCreatePipe(t)
    \/ \E t \in 1..Len(threads) : ThreadSleep(t)
    \/ \E t \in 1..Len(threads) : ThreadWait(t)
    \/ \E t \in 1..Len(threads) : ThreadConnect(t)
    \/ \E t \in 1..Len(threads) : ThreadRead(t)
    \/ \E t \in 1..Len(threads) : ThreadCheckTarget(t)
    \/ \E t \in 1..Len(threads) : ThreadInvoke(t)
    \/ \E t \in 1..Len(threads) : ThreadTeardown(t)

Spec == Init /\ [][Next]_vars

(***************************************************************************)
(* The server under fair scheduling.  A call that is inside Start or Stop  *)
(* goes on when it can, and so does a listener thread, except where it     *)
(* waits for something outside the process: a client that connects         *)
(* (ConnectNamedPipe) or writes (ReadFile), and the wait of line 115 while *)
(* the stop event is not signaled.  Nothing obliges the host to call       *)
(* Start, Stop or SetTextService.                                          *)
(***************************************************************************)
CallerRuns(c) ==
    \/ StartEnter(c) \/ StartCreateThread(c) \/ StartSetRunning(c)
    \/ StopEnter(c) \/ StopSignal(c) \/ StopWait(c) \/ StopCloseEvent(c)

ThreadRuns(t) ==
    /\ t \in 1..Len(threads)
    /\ \/ ThreadLoop(t) \/ ThreadCreatePipe(t) \/ ThreadSleep(t)
       \/ (EventSignaled(threads[t].waitEvt) /\ ThreadWait(t))
       \/ ThreadCheckTarget(t) \/ ThreadInvoke(t) \/ ThreadTeardown(t)

FairSpec ==
    /\ Spec
    /\ \A c \in Callers : WF_vars(CallerRuns(c))
    /\ \A t \in 1..MaxStarts : WF_vars(ThreadRuns(t))

(***************************************************************************)
(* The server from the state a timed-out Stop leaves (lines 70-78): the    *)
(* first Start's listener is still blocked in ConnectNamedPipe with its    *)
(* pipe open, its thread handle is closed, the flag is FALSE and both      *)
(* fields are NULL.  The stop event of that Start is closed and gone, so   *)
(* that MaxStarts further Starts are followed from here.                   *)
(***************************************************************************)
InitAfterTimeout ==
    /\ TextInit /\ surface = QuietSurface /\ ChannelInit /\ ControllerInit
    /\ hServerThread = NULL
    /\ hStopEvent = NULL
    /\ isRunning = FALSE
    /\ pTextService = NULL
    /\ mutex = NULL
    /\ events = <<>>
    /\ threads = <<[NewThread EXCEPT !.pc = "connect", !.hPipe = TRUE, !.closes = 1]>>
    /\ cpc = [c \in Callers |-> "idle"]
    /\ ret = [c \in Callers |-> IF c = 1 THEN "returned" ELSE "none"]
    /\ waitResult = [c \in Callers |-> "none"]

FairSpecRestart ==
    /\ InitAfterTimeout /\ [][Next]_vars
    /\ \A c \in Callers : WF_vars(CallerRuns(c))
    /\ \A t \in 1..(MaxStarts + 1) : WF_vars(ThreadRuns(t))

(***************************************************************************)
(* The insertion coordinator with its callers, the host and the Text       *)
(* Surface.                                                                *)
(***************************************************************************)
InitText == ServerInit /\ TextInit /\ surface \in Surfaces /\ ChannelInit /\ ControllerInit

NextText ==
    \/ Activate
    \/ Deactivate
    \/ SurfaceChange
    \/ \E c \in TextCallers : CallSetMode(c)
    \/ \E c \in TextCallers : SetMode(c)
    \/ \E c \in TextCallers : CallSendText(c)
    \/ \E c \in TextCallers : CallCanInsert(c)
    \/ \E c \in TextCallers : ThreadMgrTest(c)
    \/ \E c \in TextCallers : CompositionNullTest(c)
    \/ \E c \in TextCallers : CompositionTest(c)
    \/ \E c \in TextCallers : SendTextTarget(c)
    \/ \E c \in TextCallers : CanInsertTarget(c)
    \/ \E c \in TextCallers : SendTextRequest(c)

SpecText == InitText /\ [][NextText]_vars

(***************************************************************************)
(* CTipIpcServer::_SplitString (lines 181-208) on its own: a call with any  *)
(* string of at most MaxMsgLen chunks, and its return.                     *)
(***************************************************************************)
InitSplit ==
    /\ ServerInit /\ TextInit /\ surface = QuietSurface /\ ControllerInit
    /\ buffer = <<>> /\ served = <<>> /\ calls = <<>>
    /\ \E str \in Messages :
          splitCall = [str |-> str, returned |-> FALSE, result |-> <<>>]

SplitReturn ==
    /\ ~splitCall.returned
    /\ splitCall' = [splitCall EXCEPT !.returned = TRUE,
                                      !.result = SplitString(splitCall.str, Delimiter)]
    /\ UNCHANGED <<serverVars, textVars, buffer, served, calls, controllerVars>>

SplitCall ==
    /\ splitCall.returned
    /\ \E str \in Messages :
          splitCall' = [str |-> str, returned |-> FALSE, result |-> <<>>]
    /\ UNCHANGED <<serverVars, textVars, buffer, served, calls, controllerVars>>

NextSplit == SplitReturn \/ SplitCall

SpecSplit == InitSplit /\ [][NextSplit]_vars

(***************************************************************************)
(* The listener's sessions message by message: lines 125-135 with the      *)
(* buffer, and _ProcessMessage with the call it makes.  The server has     *)
(* been started and stays Running; the dispatch target is the one          *)
(* installed before (SetTextService racing with a dispatch is followed in  *)
(* Spec).                                                                  *)
(***************************************************************************)
\* client connections one behaviour reads a message from
MaxSessions == 2

\* L'\0'
Nul == "NUL"

\* What the buffer, a local of the loop body that nothing initialises, may
\* hold when the thread begins.
StackGarbage == {<<>>, <<"SetMode", "|", "x", "x">>}

\* line 130: ReadFile writes the message over the beginning of the buffer.
ReadFile(buf, message) == message \o SubSeq(buf, Len(message) + 1, Len(buf))

\* A read that leaves the buffer without its terminator.
Terminate_Missing(buf, n) == buf

\* line 132: buffer[bytesRead / sizeof(wchar_t)] = L'\0'
Terminate(buf, n) ==
    [i \in 1..(IF Len(buf) > n THEN Len(buf) ELSE n + 1) |->
        IF i = n + 1 THEN Nul ELSE buf[i]]

\* line 133: std::wstring message(buffer), the characters before the first
\* L'\0' (all of them when there is none).
WString(buf) ==
    IF \E i \in 1..Len(buf) : buf[i] = Nul
    THEN SubSeq(buf, 1, (CHOOSE i \in 1..Len(buf) :
                            buf[i] = Nul /\ \A j \in 1..(i - 1) : buf[j] # Nul) - 1)
    ELSE buf

InitSession ==
    /\ TextInit /\ surface = QuietSurface /\ ControllerInit
    /\ splitCall = NoSplit /\ served = <<>> /\ calls = <<>>
    /\ buffer \in StackGarbage
    /\ isRunning = TRUE
    /\ hStopEvent = 1 /\ events = <<[signaled |-> FALSE, closes |-> 0]>>
    /\ hServerThread = 1 /\ threads = <<NewThread>>
    /\ pTextService \in Targets
    /\ mutex = NULL
    /\ cpc = [c \in Callers |-> "idle"]
    /\ ret = [c \in Callers |-> IF c = 1 THEN "S_OK" ELSE "none"]
    /\ waitResult = [c \in Callers |-> "none"]

\* lines 130-133: ReadFile and the terminator; a read that fails goes to the
\* teardown without _ProcessMessage.
SessionRead(t) ==
    /\ threads[t].pc = "read"
    /\ \/ /\ Len(served) < MaxSessions
          /\ \E message \in ClientMessages :
                /\ buffer' = Terminate(ReadFile(buffer, message), Len(message))
                /\ served' = Append(served, message)
          /\ threads' = [threads EXCEPT ![t].pc = "process"]
       \/ /\ threads' = [threads EXCEPT ![t].pc = "teardown"]
          /\ UNCHANGED <<buffer, served>>
    /\ UNCHANGED <<hServerThread, hStopEvent, isRunning, pTextService, mutex,
                   events, cpc, ret, waitResult, textVars, splitCall, calls,
                   controllerVars>>

\* lines 133-134 and 145-179: _ProcessMessage(message); its result is
\* dropped.
ProcessMessage(t) ==
    /\ threads[t].pc = "process"
    /\ LET command == ParseCommand(WString(buffer))
       IN  calls' = IF command # NoCmd /\ pTextService # NULL
                    THEN Append(calls, [method |-> command.cmd, arg |-> command.arg])
                    ELSE calls
    /\ threads' = [threads EXCEPT ![t].pc = "teardown"]
    /\ UNCHANGED <<hServerThread, hStopEvent, isRunning, pTextService, mutex,
                   events, cpc, ret, waitResult, textVars, splitCall, buffer,
                   served, controllerVars>>

NextSession ==
    \/ \E t \in 1..Len(threads) : ThreadLoop(t)
    \/ \E t \in 1..Len(threads) : ThreadCreatePipe(t)
    \/ \E t \in 1..Len(threads) : ThreadSleep(t)
    \/ \E t \in 1..Len(threads) : ThreadWait(t)
    \/ \E t \in 1..Len(threads) : ThreadConnect(t)
    \/ \E t \in 1..Len(threads) : SessionRead(t)
    \/ \E t \in 1..Len(threads) : ProcessMessage(t)
    \/ \E t \in 1..Len(threads) : ThreadTeardown(t)

SpecSession == InitSession /\ [][NextSession]_vars

(***************************************************************************)
(* CCompositionController on its own: its callers and its methods.  Under  *)
(* FairSpecController a caller that is inside a method and can take a      *)
(* step goes on.                                                           *)
(***************************************************************************)
NextController ==
    \/ \E c \in ControllerCallers : CallInitialize(c)
    \/ \E c \in ControllerCallers : CallUninitialize(c)
    \/ \E c \in ControllerCallers : CallDestructor(c)
    \/ \E c \in ControllerCallers : CallStartComposition(c)
    \/ \E c \in ControllerCallers : CallEndComposition(c)
    \/ \E c \in ControllerCallers : CallUpdateComposition(c)
    \/ \E c \in ControllerCallers : IsCompositionActive(c)
    \/ \E c \in ControllerCallers : IsCompositionInProgress(c)
    \/ \E c \in ControllerCallers : CLock(c)
    \/ \E c \in ControllerCallers : Initialize(c)
    \/ \E c \in ControllerCallers : UninitializeEndComposition(c)
    \/ \E c \in ControllerCallers : UninitializeRelease(c)
    \/ \E c \in ControllerCallers : StartComposition(c)
    \/ \E c \in ControllerCallers : EndComposition(c)
    \/ \E c \in ControllerCallers : UpdateComposition(c)

SpecController == Init /\ [][NextController]_vars

ControllerRuns(c) ==
    \/ CLock(c)
    \/ Initialize(c)
    \/ UninitializeEndComposition(c)
    \/ UninitializeRelease(c)
    \/ StartComposition(c)
    \/ EndComposition(c)
    \/ UpdateComposition(c)

FairSpecController ==
    /\ SpecController
    /\ \A c \in ControllerCallers : WF_vars(ControllerRuns(c))

(***************************************************************************)
(* Claims about the command channel server, checked under Spec.            *)
(***************************************************************************)
\* The server is Running: the flag is set and no Start or Stop is inside its
\* critical section.
Running == isRunning /\ mutex = NULL

Stopped == ~isRunning /\ mutex = NULL

\* Every handle Start ever created has been closed.
AllHandlesClosedOnce ==
    /\ \A e \in 1..Len(events) : events[e].closes = 1
    /\ \A t \in 1..Len(threads) : threads[t].closes = 1

\* C1: whenever the server is Running, exactly one listener thread is alive.
C1_ExactlyOneListenerWhileRunning ==
    Running => Cardinality(AliveThreads) = 1

\* The two halves of C1, to tell which the code breaks.
C1_NeverZeroWhileRunning == Running => AliveThreads # {}

C1_NeverTwoWhileRunning == Running => Cardinality(AliveThreads) <= 1

\* A step in which caller c's Start finds the server running and returns.
StartNoOpStep(c) == cpc[c] = "start_lock" /\ cpc'[c] = "idle" /\ isRunning

\* C2 (frame part): Start on a running server returns S_OK and changes no
\* field, no event and no thread.
C2_StartWhileRunningIsNoOp ==
    [][\A c \in Callers :
          StartNoOpStep(c) =>
             /\ ret'[c] = "S_OK"
             /\ UNCHANGED <<hServerThread, hStopEvent, isRunning, pTextService,
                            mutex, events, threads>>]_vars

\* C2: Start on a running server returns S_OK, changes nothing, and leaves
\* exactly one listener thread running.
C2_StartTwiceLeavesOneListener ==
    [][\A c \in Callers :
          StartNoOpStep(c) =>
             /\ ret'[c] = "S_OK"
             /\ UNCHANGED <<hServerThread, hStopEvent, isRunning, events, threads>>
             /\ Cardinality(AliveThreads') = 1]_vars

\* C3: a Stop that finds the server not running returns and changes no state;
\* no handle is ever closed twice; and whenever the server is Stopped (after
\* one Stop or several, one after the other or at once) the thread handle and
\* the stop event are cleared and every handle was closed exactly once.
C3_StopIdempotent ==
    /\ [](Stopped => hServerThread = NULL /\ hStopEvent = NULL /\ AllHandlesClosedOnce)
    /\ [](/\ \A e \in 1..Len(events) : events[e].closes <= 1
          /\ \A t \in 1..Len(threads) : threads[t].closes <= 1)
    /\ [][\A c \in Callers :
             (cpc[c] = "stop_lock" /\ cpc'[c] = "idle") =>
                /\ ret'[c] = "returned"
                /\ UNCHANGED <<hServerThread, hStopEvent, isRunning, pTextService,
                               mutex, events, threads>>]_vars

\* Two Stop calls have returned, the server ran once in between or before,
\* and it is Stopped with both handles closed.
C3_Witness ==
    \E c1, c2 \in Callers :
       /\ c1 # c2
       /\ cpc[c1] = "idle" /\ ret[c1] = "returned"
       /\ cpc[c2] = "idle" /\ ret[c2] = "returned"
       /\ Stopped
       /\ Len(threads) = 1 /\ threads[1].closes = 1
       /\ Len(events) = 1 /\ events[1].closes = 1

\* A step in which caller c's Stop, made on a running server, returns.
StopReturnStep(c) == cpc[c] = "stop_close" /\ cpc'[c] = "idle"

\* C4 as stated: when a Stop made on a running server returns, no listener
\* thread is alive.
C4_NoListenerAfterStop ==
    [][\A c \in Callers : StopReturnStep(c) => AliveThreads' = {}]_vars

\* C4 amended: when a Stop made on a running server returns and its wait on
\* the thread handle did not time out, the listener thread spawned by the
\* latest Start (the one whose handle the server held) has exited.
C4_ListenerExitedUnlessTimeout ==
    [][\A c \in Callers :
          (StopReturnStep(c) /\ waitResult[c] # "WAIT_TIMEOUT") =>
             /\ waitResult[c] = "WAIT_OBJECT_0"
             /\ Len(threads') > 0
             /\ threads'[Len(threads')].pc = "exited"]_vars

\* A Stop is about to return after a wait that did not time out, the thread
\* having left its loop.
C4_Witness ==
    \E c \in Callers :
       /\ cpc[c] = "stop_close"
       /\ waitResult[c] = "WAIT_OBJECT_0"
       /\ Len(threads) > 0 /\ ~Alive(Len(threads))

\* C5 as stated: when the listening endpoint cannot be created (a listener
\* thread is backing off after CreateNamedPipe failed), Start has not
\* succeeded and the server is not running.
C5_EndpointFailureFailsStart ==
    \A t \in 1..Len(threads) : threads[t].pc = "sleep" => ~isRunning

\* C5 amended: a failure to create the endpoint happens in the listener
\* thread, which stays alive and backs off; it changes no Start result and
\* not the running flag.  Start returns a failure only from CreateEvent or
\* CreateThread, and then the flag is false and no thread was spawned.
C5_EndpointFailureNotSurfaced ==
    /\ [][\A t \in 1..Len(threads) :
             (threads[t].pc = "create" /\ threads'[t].pc \notin {"create", "wait"}) =>
                /\ threads'[t].pc = "sleep"
                /\ UNCHANGED <<isRunning, ret, cpc, hServerThread, hStopEvent>>]_vars
    /\ [][\A c \in Callers :
             (ret[c] = "pending" /\ ret'[c] = "E_WIN32") =>
                /\ cpc[c] \in {"start_lock", "start_thread"}
                /\ ~isRunning'
                /\ threads' = threads]_vars

\* Endpoint creation has failed while Start had returned success and the
\* server is Running.
C5_Witness ==
    /\ Running
    /\ \E c \in Callers : cpc[c] = "idle" /\ ret[c] = "S_OK"
    /\ \E t \in 1..Len(threads) : threads[t].pc = "sleep"

\* C6: a Start that fails (CreateEvent or CreateThread) returns a failure and
\* leaves the server as a fresh one: flag false, both fields NULL, the lock
\* free, and every event created so far, its own included, closed once.
C6_FailedStartReleasesEvent ==
    [][\A c \in Callers :
          (ret[c] = "pending" /\ ret'[c] \notin {"pending", "S_OK", "returned"}) =>
             /\ ret'[c] = "E_WIN32"
             /\ cpc'[c] = "idle"
             /\ ~isRunning'
             /\ hServerThread' = NULL
             /\ hStopEvent' = NULL
             /\ mutex' = NULL
             /\ \A e \in 1..Len(events') : events'[e].closes = 1
             /\ \A t \in 1..Len(threads') : threads'[t].closes = 1]_vars

\* Start has failed in CreateThread: its event exists and is closed, and no
\* thread was made for it.
C6_Witness ==
    \E c \in Callers :
       /\ cpc[c] = "idle" /\ ret[c] = "E_WIN32"
       /\ Len(events) > Len(threads)
       /\ events[Len(events)].closes = 1
       /\ hStopEvent = NULL

\* C7: the target a dispatch calls is the value that passed its null test.
C7_DispatchUsesOneSnapshot ==
    \A t \in 1..Len(threads) :
       (threads[t].pc = "teardown" /\ threads[t].checked # NULL) =>
          threads[t].invoked = threads[t].checked

\* The threads that hold an open pipe handle: the Channel Sessions.
OpenSessions == {t \in 1..Len(threads) : threads[t].hPipe}

\* C19: at most one endpoint is open at any time; a thread holds one only
\* from its creation to the teardown or the stop, never at the loop test, in
\* the back-off or after its exit; every path from the connect leads to the
\* teardown, which closes the endpoint before the next loop test; and a
\* session makes at most one dispatch, after its one read.
C19_SessionTornDownOnce ==
    /\ [](/\ Cardinality(OpenSessions) <= 1
          /\ \A t \in 1..Len(threads) :
                /\ threads[t].hPipe <=>
                      threads[t].pc \in {"wait", "connect", "read", "dispatch",
                                         "invoke", "teardown"}
                /\ threads[t].invoked # NULL => threads[t].pc = "teardown")
    /\ [][\A t \in 1..Len(threads) :
             LET from == threads[t].pc
                 to == threads'[t].pc
             IN  from # to =>
                    /\ from = "connect" => to \in {"read", "teardown"}
                    /\ from = "read" => to \in {"dispatch", "teardown"}
                    /\ from = "dispatch" => to \in {"invoke", "teardown"}
                    /\ from = "invoke" => to = "teardown"
                    /\ from = "teardown" => (to = "loop" /\ ~threads'[t].hPipe)
                    /\ to = "read" => from = "connect"
                    /\ to = "create" => (from = "loop" /\ ~threads[t].hPipe)
                    /\ to = "exited" => ~threads'[t].hPipe]_vars

\* A session has made its one dispatch and is at its teardown, its endpoint
\* the only one open.
C19_Witness ==
    \E t \in 1..Len(threads) :
       /\ threads[t].pc = "teardown"
       /\ threads[t].invoked # NULL
       /\ OpenSessions = {t}

(***************************************************************************)
(* Claims about shutdown and back-off, checked under FairSpec.             *)
(***************************************************************************)
\* No client connects: no thread gets past ConnectNamedPipe with a client.
NoClientConnects ==
    \A t \in 1..Len(threads) : threads[t].pc \notin {"read", "dispatch", "invoke"}

\* The Stop that followed the first successful Start has returned: it has
\* closed the thread's handle and released the lock, and no later Start has
\* made a thread.
FirstStopReturned ==
    /\ Len(threads) = 1
    /\ threads[1].closes = 1
    /\ mutex = NULL

InsideStop(c) == cpc[c] \in {"stop_signal", "stop_wait", "stop_close"}

\* C18: if no client ever connects, a Stop that has taken the lock returns,
\* and once the Stop that follows the first successful Start has returned,
\* the listener thread has exited and the server is Stopped.
C18_StopRightAfterStartLeavesNoListener ==
    ([]NoClientConnects) =>
       /\ [](FirstStopReturned => (threads[1].pc = "exited" /\ ~isRunning))
       /\ \A c \in Callers : InsideStop(c) ~> (cpc[c] = "idle")

\* The part of C18 that the code keeps: a Stop that has taken the lock
\* returns, whatever the listener does.
C18_StopReturns ==
    \A c \in Callers : InsideStop(c) ~> (cpc[c] = "idle")

\* Thread t exists and is at one of the places pcs.
ThreadAt(t, pcs) == t <= Len(threads) /\ threads[t].pc \in pcs

\* Thread t is in the back-off of a failed endpoint creation.
BackingOff(t) == ThreadAt(t, {"sleep"})

\* C20: a failed endpoint creation leads to the back-off and the loop test,
\* never out of the loop, and leaves the running flag alone; a thread that
\* backs off retries or exits; a creation that succeeds leads to the wait;
\* and a thread that backs off while a Stop is inside exits.
C20_BackOffRetriesAndObservesStop ==
    /\ [][\A t \in 1..Len(threads) :
             /\ (threads[t].pc = "create" /\ threads'[t].pc # "create") =>
                   /\ threads'[t].pc \in {"wait", "sleep"}
                   /\ isRunning' = isRunning
             /\ (threads[t].pc = "sleep" /\ threads'[t].pc # "sleep") =>
                   threads'[t].pc = "loop"]_vars
    /\ \A t \in 1..MaxStarts :
          BackingOff(t) ~> ThreadAt(t, {"create", "exited"})
    /\ \A t \in 1..MaxStarts :
          (BackingOff(t) /\ \E c \in Callers : InsideStop(c))
             ~> ThreadAt(t, {"exited"})

\* The part of C20 that the code keeps: the same for the listener thread
\* that the server holds the handle of, the one Stop waits for.
C20_LatestListenerObservesStop ==
    \A t \in 1..MaxStarts :
       (BackingOff(t) /\ hServerThread = t /\ \E c \in Callers : InsideStop(c))
          ~> ThreadAt(t, {"exited"})

(***************************************************************************)
(* Claims about the insertion coordinator, checked under SpecText.         *)
(***************************************************************************)
\* A composition is active on the focused Text Surface.
SurfaceComposing(s) == s.focus = "S_OK" /\ s.top = "S_OK" /\ s.comp = "ACTIVE"

\* The Text Surface reports an active composition to the coordinator, which
\* reaches it through its thread manager.
ReportsComposition == pThreadMgr # NULL /\ SurfaceComposing(surface)

\* Caller c's SendText or CanInsert returns from its suppression check.
SuppressedStep(c) == tpc[c] = "comp_query" /\ tpc'[c] = "idle"

\* Caller c's SendText or CanInsert passes its suppression check.
PermittedStep(c) ==
    tpc[c] \in {"mgr_test", "comp_null", "comp_query"} /\ tpc'[c] = "target"

\* Caller c's SendText returns from its edit session request.
RequestStep(c) == tpc[c] = "request" /\ tpc'[c] = "idle"

\* C8: SendText and CanInsert suppress the insertion exactly when the stored
\* mode is "final-only" and the Text Surface reports an active composition;
\* under any other mode name the call is permitted whatever the composition
\* state, and SetMode stores the name it is given.
C8_SuppressedIffFinalOnlyAndComposing ==
    [][\A c \in TextCallers :
          /\ SuppressedStep(c) =>
                /\ currentMode = "final-only"
                /\ ReportsComposition
                /\ tret' = (IF call[c] = "SendText" THEN "S_FALSE" ELSE "FALSE")
          /\ PermittedStep(c) =>
                ~(currentMode = "final-only" /\ ReportsComposition)
          /\ (/\ tpc[c] = "mgr_test" /\ tpc'[c] # "mgr_test"
              /\ pThreadMgr # NULL
              /\ currentMode # "final-only") => tpc'[c] = "target"
          /\ (tpc[c] = "store" /\ tpc'[c] = "idle") => currentMode' = arg[c]
          /\ (tsMutex = c /\ tpc[c] # "store") => currentMode' = currentMode]_vars

\* A call has been suppressed: the mode is "final-only", a composition is
\* active and the last call returned S_FALSE without asking for a session.
C8_Witness ==
    /\ tret = "S_FALSE"
    /\ currentMode = "final-only"
    /\ ReportsComposition
    /\ tsMutex = NULL
    /\ surfaceLog = NoLog

\* C9 as stated: with mode "final-only", a SendText(x) that meets an active
\* composition returns S_FALSE with no edit session requested and no insert,
\* and a SendText(x) that has found no composition and a focused context
\* invokes the insert function exactly once, with x.
C9_FinalOnlyInsertsExactlyOnce ==
    [][\A c \in TextCallers :
          /\ (SuppressedStep(c) /\ call[c] = "SendText") =>
                (tret' = "S_FALSE" /\ surfaceLog' = NoLog)
          /\ (/\ RequestStep(c)
              /\ currentMode = "final-only"
              /\ FocusDoc(surface) /\ TopContext(surface)
              /\ ~SurfaceComposing(surface)) =>
                surfaceLog'.inserts = <<arg[c]>>]_vars

\* C9 amended: with mode "final-only", a SendText(x) that meets an active
\* composition returns S_FALSE with no edit session requested and no insert.
\* One that has found no composition and a focused context requests exactly
\* one edit session, and the insert function is invoked exactly once, with
\* x, when the session is granted, the context exposes insert-at-selection
\* and x is not empty; otherwise it is not invoked.  A call that ends in an
\* access violation has requested no session and inserted nothing.
C9_FinalOnlyInsertsOnceWhenGranted ==
    [][\A c \in TextCallers :
          /\ (SuppressedStep(c) /\ call[c] = "SendText") =>
                (tret' = "S_FALSE" /\ surfaceLog' = NoLog)
          /\ (/\ tpc[c] = "comp_query" /\ tpc'[c] # "comp_query"
              /\ call[c] = "SendText"
              /\ ReportsComposition) => SuppressedStep(c)
          /\ (/\ tpc[c] = "target" /\ tpc'[c] # "target"
              /\ call[c] = "SendText"
              /\ pThreadMgr # NULL
              /\ FocusDoc(surface) /\ TopContext(surface)) =>
                (tpc'[c] = "request" /\ surfaceLog' = NoLog)
          /\ (RequestStep(c) /\ currentMode = "final-only") =>
                /\ surfaceLog'.requests = 1
                /\ surfaceLog'.inserts =
                      IF /\ surface.session = "GRANTED"
                         /\ surface.insert = "S_OK"
                         /\ arg[c] # ""
                      THEN <<arg[c]>>
                      ELSE <<>>
          /\ (call[c] = "SendText" /\ tpc'[c] = "crashed") =>
                surfaceLog' = NoLog]_vars

\* SendText("x") in mode "final-only" has inserted x once through a granted
\* session and returned S_OK.
C9_Witness ==
    /\ tret = "S_OK"
    /\ currentMode = "final-only"
    /\ surfaceLog = [requests |-> 1, inserts |-> <<"x">>]
    /\ surface.session = "GRANTED" /\ surface.insert = "S_OK"
    /\ pendingText = "" /\ pCurrentContext = NULL
    /\ tsMutex = NULL

\* C10: a SendText that finds no thread manager, no focused document manager
\* or no top context returns the failure E_FAIL and has inserted nothing.
C10_NoTargetWhenNoSurface ==
    [][\A c \in TextCallers :
          (/\ call[c] = "SendText"
           /\ tpc[c] \in {"mgr_test", "target"}
           /\ tpc'[c] = "idle") =>
             (tret' = "E_FAIL" /\ surfaceLog'.inserts = <<>>)]_vars

\* C11: a SendText whose edit session request fails or is not granted returns
\* the failure E_FAIL, having requested one session and inserted nothing.
C11_NoAccessIsNoTarget ==
    [][\A c \in TextCallers :
          (RequestStep(c) /\ surface.session \in {"E_FAIL", "DENIED"}) =>
             /\ tret' = "E_FAIL"
             /\ surfaceLog'.requests = 1
             /\ surfaceLog'.inserts = <<>>]_vars

\* The part of C11 that the code keeps: whatever the session's outcome,
\* SendText requests one session and never a second one.
C11_NeverRetried ==
    [][\A c \in TextCallers :
          RequestStep(c) =>
             (surfaceLog.requests = 0 /\ surfaceLog'.requests = 1)]_vars

\* SendText passes its eligibility checks on surface s: lines 118-126 go on
\* to the edit session request.
SendTextFindsTarget(s) ==
    /\ ~(FAILED(FocusHr(s)) \/ ~FocusDoc(s))
    /\ ~(FAILED(TopHr(s)) \/ ~TopContext(s))

\* C12: CanInsert returns TRUE exactly when a SendText in the same state
\* would pass its checks and reach the edit session request, and no step of
\* CanInsert changes the mode, the pending text or the pending context.
C12_CanInsertMirrorsSendText ==
    [][\A c \in TextCallers :
          /\ (call[c] = "CanInsert" /\ tpc[c] = "target" /\ tpc'[c] = "idle") =>
                (tret' = "TRUE" <=> SendTextFindsTarget(surface))
          /\ (call[c] = "CanInsert" /\ tpc[c] \in {"mgr_test", "comp_query"}
                                    /\ tpc'[c] = "idle") => tret' = "FALSE"
          /\ ((call[c] = "CanInsert" \/ call'[c] = "CanInsert") /\ tpc'[c] # tpc[c]) =>
                UNCHANGED <<currentMode, pendingText, pCurrentContext>>]_vars

\* The part of C12 that the code keeps: CanInsert has no side effect.
C12_CanInsertHasNoSideEffect ==
    [][\A c \in TextCallers :
          ((call[c] = "CanInsert" \/ call'[c] = "CanInsert") /\ tpc'[c] # tpc[c]) =>
             UNCHANGED <<currentMode, pendingText, pCurrentContext, surfaceLog,
                         pThreadMgr, tfClientId, surface>>]_vars

\* Caller c is inside a locked method of the coordinator.
Inside(c) == tpc[c] \notin {"idle", "crashed"}

\* C13: SendText's suppression check and insertion are one critical section:
\* while a SendText is inside, no other caller is inside SendText, CanInsert
\* or SetMode or enters one, the mode keeps the value it had when the
\* SendText took the lock, and only that SendText asks the Text Surface for
\* a session or an insertion.
C13_SendTextIsOneCriticalSection ==
    [][\A c \in TextCallers :
          (Inside(c) /\ call[c] = "SendText") =>
             /\ tsMutex = c
             /\ currentMode' = currentMode
             /\ \A d \in TextCallers \ {c} : ~Inside(d) /\ ~Inside(d)'
             /\ surfaceLog' # surfaceLog => RequestStep(c)]_vars

\* A SendText is past its suppression check, about to request its edit
\* session, and a SetMode by another caller cannot begin.
C13_Witness ==
    \E c \in TextCallers, d \in TextCallers :
       /\ c # d
       /\ tpc[c] = "request" /\ call[c] = "SendText"
       /\ tpc[d] = "idle"
       /\ ~ENABLED CallSetMode(d)

(***************************************************************************)
(* Claims about the parser, checked under SpecSplit.                       *)
(***************************************************************************)
\* The positions of str at which a maximal delimiter-free run begins, and
\* the position at which the run that begins at i ends.
RunStarts(str, delimiter) ==
    {i \in 1..Len(str) :
        str[i] # delimiter /\ (i = 1 \/ str[i - 1] = delimiter)}

RunEnd(str, delimiter, i) ==
    CHOOSE j \in i..Len(str) :
        /\ \A k \in i..j : str[k] # delimiter
        /\ j = Len(str) \/ str[j + 1] = delimiter

\* The maximal delimiter-free non-empty substrings of str, in their order.
MaximalRuns(str, delimiter) ==
    LET starts == RunStarts(str, delimiter)
        nth(k) == CHOOSE i \in starts :
                     Cardinality({h \in starts : h <= i}) = k
    IN  [k \in 1..Cardinality(starts) |->
            SubSeq(str, nth(k), RunEnd(str, delimiter, nth(k)))]

\* C14: _SplitString returns exactly the maximal delimiter-free non-empty
\* substrings of the message in their order: no field is empty or holds the
\* delimiter, and a message with no such substring yields zero fields.
C14_SplitYieldsMaximalRuns ==
    splitCall.returned =>
       /\ splitCall.result = MaximalRuns(splitCall.str, Delimiter)
       /\ \A k \in 1..Len(splitCall.result) :
             /\ splitCall.result[k] # <<>>
             /\ \A i \in 1..Len(splitCall.result[k]) :
                   splitCall.result[k][i] # Delimiter
       /\ (\A i \in 1..Len(splitCall.str) : splitCall.str[i] = Delimiter) =>
             splitCall.result = <<>>

\* _SplitString has returned two fields for a message with a leading, a
\* doubled and no trailing delimiter.
C14_Witness ==
    /\ splitCall.returned
    /\ splitCall.str = <<"|", "x", "|", "|", "y">> \/ splitCall.str = <<"x", "|", "|", "y">>
    /\ splitCall.result = << <<"x">>, <<"y">> >>

(***************************************************************************)
(* Claims about the dispatch of messages, checked under SpecSession.       *)
(***************************************************************************)
\* The step in which thread t returns from _ProcessMessage, and the message
\* the client of that session wrote.
ProcessStep(t) == threads[t].pc = "process" /\ threads'[t].pc = "teardown"

SessionMessage == served[Len(served)]

CommandNames == {<<"SendText">>, <<"CanInsert">>, <<"SetMode">>}

NoCall == [method |-> "none", arg |-> <<>>]

\* The call a message asks for, from its fields as the maximal
\* delimiter-free runs: none for a message that is to be dropped.
ExpectedCall(message) ==
    LET f == MaximalRuns(message, "|")
    IN  IF f = <<>> THEN NoCall
        ELSE IF f[1] = <<"CanInsert">> THEN [method |-> "CanInsert", arg |-> <<>>]
        ELSE IF f[1] = <<"SendText">> /\ Len(f) >= 2
             THEN [method |-> "SendText", arg |-> f[2]]
        ELSE IF f[1] = <<"SetMode">> /\ Len(f) >= 2
             THEN [method |-> "SetMode", arg |-> f[2]]
        ELSE NoCall

C16_UnknownCommandIsDropped ==
    [][\A t \in 1..Len(threads) :
          /\ ProcessStep(t) =>
                LET f == MaximalRuns(SessionMessage, "|")
                IN  (f = <<>> \/ f[1] \notin CommandNames) =>
                       /\ calls' = calls
                       /\ isRunning' /\ threads'[t].pc = "teardown"
                       /\ UNCHANGED <<textVars, pTextService>>
          /\ threads[t].pc = "teardown" => threads'[t].pc \in {"teardown", "loop"}
          /\ threads[t].pc = "loop" => threads'[t].pc \in {"loop", "create"}]_vars

\* "sendtext|x" was dropped and the next connection's "SendText|x" served.
C16_Witness ==
    /\ served = << <<"sendtext", "|", "x">>, <<"SendText", "|", "x">> >>
    /\ calls = << [method |-> "SendText", arg |-> <<"x">>] >>
    /\ threads[1].pc = "teardown"

\* The calls that a sequence of messages asks for, in order.
ExpectedCalls(messages) ==
    LET Valid(m) == ExpectedCall(m) # NoCall
        valid == SelectSeq(messages, Valid)
    IN  [i \in 1..Len(valid) |-> ExpectedCall(valid[i])]

\* C17: with a dispatch target installed, the calls made on it are, in the
\* order the connections were served, exactly one call for each valid
\* message with that message's payload, and the message handed to
\* _ProcessMessage is the one the client of this connection wrote, whatever
\* the buffer held before.
C17_OneCallPerValidMessageInOrder ==
    LET processing == \E t \in 1..Len(threads) : threads[t].pc = "process"
    IN  /\ processing => WString(buffer) = SessionMessage
        /\ pTextService # NULL =>
              calls = ExpectedCalls(IF processing
                                    THEN SubSeq(served, 1, Len(served) - 1)
                                    ELSE served)
        /\ pTextService = NULL => calls = <<>>

\* Two connections served: SetMode|x, then the shorter CanInsert.
C17_Witness ==
    /\ pTextService # NULL
    /\ served = << <<"SetMode", "|", "x">>, <<"CanInsert">> >>
    /\ calls = << [method |-> "SetMode", arg |-> <<"x">>],
                  [method |-> "CanInsert", arg |-> <<>>] >>
    /\ threads[1].pc = "create"

(***************************************************************************)
(* Claims about the stop signal and the listener, checked under Spec.      *)
(***************************************************************************)
\* SetEvent of line 65 has been called on the stop event of the latest
\* Start (Stop closes the event afterwards; the signal has still been raised).
StopSignalRaised == Len(events) > 0 /\ events[Len(events)].signaled

\* ConnectNamedPipe of line 123 returns with a client connected.
AcceptStep(t) == threads[t].pc = "connect" /\ threads'[t].pc = "read"

\* The wait of line 115 returns with the stop event signaled.
ObserveStep(t) ==
    /\ threads[t].pc = "wait"
    /\ EventSignaled(threads[t].waitEvt)
    /\ threads'[t].pc # "wait"

\* C21: once Stop has raised the stop signal no listener thread accepts a
\* connection, and a thread that observes the signal in its wait closes the
\* endpoint of the iteration and leaves the loop.
C21_NoConnectionAfterStopSignal ==
    [][\A t \in 1..Len(threads) :
          /\ StopSignalRaised => ~AcceptStep(t)
          /\ ObserveStep(t) => (threads'[t].pc = "exited" /\ ~threads'[t].hPipe)]_vars

\* The part of C21 about a thread that observes the signal.
C21_ObservedSignalClosesEndpoint ==
    [][\A t \in 1..Len(threads) :
          ObserveStep(t) => (threads'[t].pc = "exited" /\ ~threads'[t].hPipe)]_vars

(***************************************************************************)
(* Claims about the composition controller, checked under                  *)
(* FairSpecController.                                                     *)
(***************************************************************************)
\* Caller c has called Uninitialize, or the destructor that calls it, and
\* the call has not ended.
InsideUninitialize(c) == ccCall[c] \in {"Uninitialize", "~CCompositionController"}

\* Uninitialize has let go of the composition and the context and has reset
\* the client id, and has returned normally.
UninitializeDone ==
    /\ ~pComposition
    /\ pContext = NULL
    /\ clientId = NULL
    /\ ccret = "void"

\* C22: a call of Uninitialize (or of the destructor) always ends, it ends
\* with the composition ended, the context released and the client id
\* reset, and no caller ever blocks on the lock it holds itself.
C22_UninitializeTerminates ==
    /\ \A c \in ControllerCallers : InsideUninitialize(c) ~> ~InsideUninitialize(c)
    /\ [][\A c \in ControllerCallers :
             (InsideUninitialize(c) /\ ccCall'[c] = "none") => UninitializeDone']_vars
    /\ [](\A c \in ControllerCallers : ccpc[c] # "deadlocked")

\* The part of C22 that holds: an Uninitialize that gets past its call of
\* EndComposition leaves no composition, no context and no client id.
C22_CompletedUninitializeResets ==
    [][\A c \in ControllerCallers :
          (ccpc[c] = "release" /\ ccpc'[c] # "release") => UninitializeDone']_vars

(***************************************************************************)
(* Claims about the host's calls and the pending state of the insertion    *)
(* coordinator, checked under SpecText.                                    *)
(***************************************************************************)
\* Caller c is inside SendText or CanInsert, past the test of _pThreadMgr
\* (lines 112, 142) and not past its last use of the thread manager and of
\* the client id (lines 119, 149, 226, 133).
UsesThreadMgr(c) == tpc[c] \in {"comp_null", "comp_query", "target", "request"}

\* C23: while a caller is inside SendText or CanInsert between the null
\* test of the thread manager and the call's last use of it, the thread
\* manager and the client id are neither released nor replaced.
C23_ThreadMgrHeldDuringCall ==
    [][(\E c \in TextCallers : UsesThreadMgr(c))
          => (pThreadMgr' = pThreadMgr /\ tfClientId' = tfClientId)]_vars

\* Caller c returns from SendText (lines 113, 116, 121, 126, 135).
SendTextReturnStep(c) ==
    /\ call[c] = "SendText"
    /\ tpc[c] \notin {"idle", "crashed"}
    /\ tpc'[c] = "idle"

\* The texts the edit session of this step inserted.
InsertedNow == SubSeq(surfaceLog'.inserts, Len(surfaceLog.inserts) + 1,
                      Len(surfaceLog'.inserts))

\* C24: a text inserted by DoEditSession is the argument of the SendText
\* that requested the edit session, and whenever SendText returns the
\* pending text is empty and the pending context released.
C24_PendingStateNeverLeaks ==
    [][\A c \in TextCallers :
          /\ RequestStep(c) =>
                \A i \in 1..Len(InsertedNow) : InsertedNow[i] = arg[c]
          /\ SendTextReturnStep(c) =>
                (pendingText' = "" /\ pCurrentContext' = NULL)]_vars

\* The part of C24 that holds: what an edit session inserts is the argument
\* of the call that requested it, and only a request inserts.
C24_InsertedTextIsRequestersArgument ==
    [][/\ \A c \in TextCallers :
             RequestStep(c) =>
                \A i \in 1..Len(InsertedNow) : InsertedNow[i] = arg[c]
       /\ (\A c \in TextCallers : ~RequestStep(c)) =>
             (surfaceLog'.inserts = surfaceLog.inserts \/ surfaceLog' = NoLog)]_vars
====
